---- MODULE Spec2Model ----
(***************************************************************************)
(* The asset synchronization pipeline of MCLauncher (src/install/mod.rs):  *)
(* install_mc -> get_version_json -> install_assets_and_asset_index ->     *)
(* install_assets -> install_bytes_with_timeout.                           *)
(*                                                                         *)
(* The program is single-threaded and blocks on every HTTP call, so the    *)
(* state machine has one program counter and one action per HTTP call      *)
(* together with the code that runs until the next HTTP call.  The server  *)
(* and the network are the environment: every outcome of a call (body,     *)
(* failure to send, failure while reading the body) is chosen freely.      *)
(* The filesystem is reliable: create_dir_all and write succeed.           *)
(***************************************************************************)
EXTENDS Integers, Sequences, FiniteSets, TLC

\* ---------------------------------------------------------------- bounds
MaxRuns == 2        \* number of `build` invocations in one behaviour
MaxObjects == 2     \* number of entries of the asset index document
MaxPieces == 3      \* number of pieces a url given to replace_domain is made of
MaxVersions == 3    \* number of entries of a version manifest

\* ------------------------------------------------------- program constants
\* (fault: an inclusive range, 0..=3)
FetchAttemptsMut == 3 + 1
\* for _ in 0..3  (install_bytes_with_timeout)
FetchAttempts == 3
\* for i in 0..=3 ... if i == 3 { return Err }  (install_assets_and_asset_index)
IndexLastAttempt == 3

\* ------------------------------------------------------------------ data
\* A byte buffer is a sequence of chunks.  "BOM" is the UTF-8 byte order
\* mark, "xFF" a byte that is not valid UTF-8, "uFFFD" the encoding of the
\* replacement character; every other chunk is valid UTF-8 text.
\* The bodies a response to an object request may carry: for each hash one
\* body is the right one and the others are corrupted or stale bytes.
ObjectBodies == {<<"A">>, <<"B">>, <<"C">>}
IndexBodies == {<<"idx">>, <<"BOM", "idx">>, <<"notjson">>, <<"xFF">>}

\* A hex digest is a sequence of hex digits (the real ones have 40).
Hashes == {<<1, 0, 1>>, <<1, 0, 2>>, <<2, 0, 1>>}

\* hex::encode(Sha1::digest(data)): a fixed table, injective on the buffers
\* of the model, as SHA-1 is on the buffers a run meets.
Sha1Hex(data) ==
    CASE data = <<"A">> -> <<1, 0, 1>>
      [] data = <<"B">> -> <<1, 0, 2>>
      [] data = <<"C">> -> <<2, 0, 1>>
      [] data = <<"junk">> -> <<9, 9, 9>>
      [] data = <<"idx">> -> <<5, 0, 1>>
      [] data = <<"notjson">> -> <<5, 0, 2>>
      [] data = <<"BOM", "idx">> -> <<5, 0, 3>>
      [] data = <<"xFF">> -> <<5, 0, 4>>
      [] data = <<"uFFFD">> -> <<5, 0, 5>>
      [] OTHER -> <<0, 0, 0>>

\* String::cmp on two hex strings of the same length.
StrCmp(a, b) ==
    IF a = b THEN "Equal"
    ELSE LET k == CHOOSE j \in 1..Len(a) :
                      /\ a[j] # b[j]
                      /\ \A m \in 1..(j - 1) : a[m] = b[m]
         IN IF a[k] < b[k] THEN "Less" ELSE "Greater"

\* (fault: the comparison's result is not looked at, every buffer passes)
sha1_cmpMut(data, sha1code) == "Equal"
\* sha1_cmp: the hex digest of the buffer compared with the expected one.
sha1_cmp(data, sha1code) == StrCmp(Sha1Hex(data), sha1code)

\* reqwest Response::text(): decode the body as UTF-8, which drops a leading
\* byte order mark and replaces malformed bytes by U+FFFD.
Text(body) ==
    LET nobom == IF Len(body) > 0 /\ Head(body) = "BOM" THEN Tail(body) ELSE body
    IN [k \in 1..Len(nobom) |-> IF nobom[k] = "xFF" THEN "uFFFD" ELSE nobom[k]]

\* -------------------------------------------------------- replace_domain
\* A string is a sequence of characters.
Https == <<"h", "t", "t", "p", "s", ":", "/", "/">>
Http == <<"h", "t", "t", "p", ":", "/", "/">>

\* The strings replace_domain is tried on: up to MaxPieces pieces, each a
\* scheme, a scheme with a host and its slash, a letter, a slash or a space.
Pieces ==
    {Https \o <<"a", "/">>, Http \o <<"a", "/">>, Https,
     <<"a">>, <<"x">>, <<"/">>, <<" ">>}
RECURSIVE UrlsUpTo(_)
UrlsUpTo(n) ==
    IF n = 0 THEN {<<>>}
    ELSE LET shorter == UrlsUpTo(n - 1)
         IN shorter \cup {u \o p : u \in shorter, p \in Pieces}
Urls == UrlsUpTo(MaxPieces)

\* The mirror bases of a configuration: a scheme, a host and a slash.
Mirrors == {Https \o <<"m", "/">>, Https \o <<"a", "/">>, Http \o <<"m", "/">>}

StartsWith(str, p, pat) ==
    /\ p + Len(pat) - 1 <= Len(str)
    /\ SubSeq(str, p, p + Len(pat) - 1) = pat

\* The regex https://\S+?/ tried at position p: the position of the last
\* character of the match, or 0.  \S+? is lazy: one or more characters that
\* are not white space, as few as will do, before a slash.
MatchEnd(str, p) ==
    IF ~StartsWith(str, p, Https) THEN 0
    ELSE LET first == p + Len(Https)
             ends == {e \in (first + 1)..Len(str) :
                         /\ str[e] = "/"
                         /\ \A k \in first..(e - 1) : str[k] # " "}
         IN IF ends = {} THEN 0
            ELSE CHOOSE e \in ends : \A e2 \in ends : e <= e2

\* regex.captures(self): the leftmost match, as <<start, end>>, or <<>>.
Captures(str) ==
    LET starts == {p \in 1..Len(str) : MatchEnd(str, p) > 0}
    IN IF starts = {} THEN <<>>
       ELSE LET p == CHOOSE q \in starts : \A q2 \in starts : q <= q2
            IN <<p, MatchEnd(str, p)>>

\* str::replace(from, to): every occurrence of from, left to right, without
\* overlap, becomes to.
RECURSIVE StrReplace(_, _, _)
StrReplace(str, from, to) ==
    IF Len(str) < Len(from) THEN str
    ELSE IF SubSeq(str, 1, Len(from)) = from
           THEN to \o StrReplace(SubSeq(str, Len(from) + 1, Len(str)), from, to)
           ELSE <<Head(str)>> \o StrReplace(Tail(str), from, to)

\* replace_domain: captures(..).unwrap() panics when nothing matches.
Panicked == [ok |-> FALSE, str |-> <<>>]
replace_domain(self, domain) ==
    LET replace == Captures(self)
    IN IF replace = <<>> THEN Panicked
       ELSE [ok |-> TRUE,
             str |-> StrReplace(self, SubSeq(self, replace[1], replace[2]), domain)]

\* ---------------------------------------------------------- version_list
\* The entries of a manifest: an id and a type, which is "release",
\* "snapshot" or something else.
VersionEntries == [id : {"1.20.4", "24w01a"}, type : {"release", "snapshot", "old_beta"}]
VersionLists == UNION {[1..n -> VersionEntries] : n \in 0..MaxVersions}
VersionTypes == {"All", "Release", "Snapshot"}

\* iter().filter(|x| x.type == t)
FilterType(vs, t) == SelectSeq(vs, LAMBDA x : x.type = t)
\* iter().map(|x| x.id.clone()).collect()
MapId(vs) == [k \in 1..Len(vs) |-> vs[k].id]

\* (fault: All is taken to mean the releases and the snapshots)
version_listMut(vs, vt) ==
    CASE vt = "All" -> MapId(SelectSeq(vs, LAMBDA x : x.type \in {"release", "snapshot"}))
      [] vt = "Release" -> MapId(FilterType(vs, "release"))
      [] vt = "Snapshot" -> MapId(FilterType(vs, "snapshot"))
\* version_list
version_list(vs, vt) ==
    CASE vt = "All" -> MapId(vs)
      [] vt = "Release" -> MapId(FilterType(vs, "release"))
      [] vt = "Snapshot" -> MapId(FilterType(vs, "snapshot"))

\* ------------------------------------------------------------ filesystem
\* "versions/" + game_version + "/" + game_version + ".json"
VersionJsonFile == <<"versions", "1.20.4", "1.20.4.json">>
\* "assets/indexes/" + ass.id + ".json"
AssetIndexFile(id) == <<"assets", "indexes", id>>
\* "assets/objects/" + &hash[0..2] + "/" + hash
ObjectDir(hash) == <<"assets", "objects", SubSeq(hash, 1, 2)>>
ObjectFile(hash) == Append(ObjectDir(hash), hash)

\* (faults: the presence check always fails, or always succeeds)
path_existsNever(f, path) == FALSE
path_existsAlways(f, path) == TRUE
\* path_exists: fs::metadata(path).is_ok()
path_exists(f, path) == path \in DOMAIN f

\* fs::write(path, data): create the file or replace its whole contents.
FsWrite(f, path, data) ==
    [p \in (DOMAIN f) \cup {path} |-> IF p = path THEN data ELSE f[p]]

\* The object files of a filesystem, as the set of their hashes.
ObjectFiles(f) == {h \in Hashes : ObjectFile(h) \in DOMAIN f}

\* The restriction of a filesystem to assets/objects.
ObjectStore(f) == [h \in ObjectFiles(f) |-> f[ObjectFile(h)]]

\* ------------------------------------------------------------- documents
\* A version descriptor as far as the pipeline reads it: whether it has an
\* assetIndex member, and that member's id, sha1 and whether its url matches
\* the pattern of replace_domain.
NoAss == [id |-> "", sha1 |-> <<>>]
Descriptors ==
    {[present |-> FALSE, id |-> "", sha1 |-> <<>>, https |-> FALSE]}
    \cup [present : {TRUE}, id : {"5.json"},
          sha1 : {Sha1Hex(<<"idx">>), Sha1Hex(<<"notjson">>)}, https : BOOLEAN]

\* serde_json::to_string_pretty(&version_json)
ToStringPretty(d) == <<"pretty", d>>

\* serde_json::from_str::<AssetJson>: only the index document parses.
ParsesAsAssetJson(data) == data = <<"idx">>

\* The orders in which `for (_, v) in &asset_json.objects` may visit the
\* entries of an index of at most MaxObjects entries, as sequences of v.hash.
EntrySeqs == UNION {[1..n -> Hashes] : n \in 0..MaxObjects}

\* The map `objects` of a sequence of entries.  The code reads nothing but
\* v.hash, so the map is the bag of its hashes: hash -> number of names.
ObjectsOf(seq) ==
    [h \in {seq[k] : k \in 1..Len(seq)} |->
        Cardinality({k \in 1..Len(seq) : seq[k] = h})]

\* The asset index documents the server may hold.
AssetJsons == {ObjectsOf(seq) : seq \in EntrySeqs}

\* The map does not fix the order of iteration: each parse may yield any.
IterationOrders(objects) == {seq \in EntrySeqs : ObjectsOf(seq) = objects}

\* The object stores a first run may find: any set of object files, left by
\* someone else, whose contents are not re-verified.
InitialStores ==
    {[p \in {ObjectFile(h) : h \in S} |-> <<"junk">>] : S \in SUBSET Hashes}

\* client.get(url)...send(): one more request for that kind of url.
NoReqs == [manifest |-> 0, descriptor |-> 0, index |-> 0]
Get(r, url) == [r EXCEPT ![url] = @ + 1]
Outcome(kind, body) == [kind |-> kind, body |-> body]
NoFetchRes == [res |-> "none", sha1 |-> <<>>, data |-> <<>>]

\* ----------------------------------------------------------------- state
VARIABLES
    pc,         \* where the program is: "idle" (no run), or the HTTP call it makes next / waits for
    runs,       \* number of runs started
    result,     \* what install_mc returned to handle_args in the last run
    fs,         \* the filesystem: path -> contents
    served,     \* the `objects` of the asset index document the server holds
    ass,        \* install_assets_and_asset_index: the descriptor's assetIndex
    i,          \* install_assets_and_asset_index: loop variable
    asset_json, \* install_assets: the entries of the parsed index, as iterated
    pos,        \* install_assets: position of the iteration over objects
    cnt,        \* install_assets: cnt
    att,        \* install_bytes_with_timeout: loop variable
    inflight,   \* the hash whose object request awaits its response, or <<>>
    reqs,       \* history: the number of manifest, descriptor and index requests issued in this run
    objReqs,    \* history: the hashes of the objects requested in this run
    nreq,       \* history: the number of requests the current install_bytes_with_timeout call has issued
    resp,       \* history: the outcomes of the attempts of the current install_bytes_with_timeout call
    fetchRes,   \* history: what the last install_bytes_with_timeout call returned
    idxBody,    \* history: the body of the last asset index response of this run
    written,    \* history: the paths the pipeline has written, in any run
    writtenRun, \* history: the paths written in this run
    fs0,        \* history: the filesystem when install_assets was last called
    syncRes,    \* history: what install_assets returned in this run
    prevSync,   \* history: what the previous install_assets call had returned when this one began
    lastSync,   \* history: what the last finished install_assets call returned
    out,        \* history: the progress lines printed in this run
    installed,  \* history: "assets installed" was printed in this run
    manifestRes,\* history: how the manifest request of this run ended
    url,        \* replace_domain: self
    mirror,     \* replace_domain: domain
    rewritten,  \* replace_domain: what it returned, and what it returned for that
    versions,   \* version_list: self.versions
    version_type, \* version_list: version_type
    listed      \* version_list: what it returned

vars == <<pc, runs, result, fs, served, ass, i, asset_json, pos, cnt, att,
          inflight, reqs, objReqs, nreq, resp, fetchRes, idxBody, written, writtenRun, fs0,
          syncRes, prevSync, lastSync, out, installed, manifestRes,
          url, mirror, rewritten, versions, version_type, listed>>

\* The state of the pipeline, and the arguments and results of the two
\* functions that are checked on their own.
pipeVars == <<pc, runs, result, fs, served, ass, i, asset_json, pos, cnt, att,
              inflight, reqs, objReqs, nreq, resp, fetchRes, idxBody, written,
              writtenRun, fs0, syncRes, prevSync, lastSync, out, installed,
              manifestRes>>
rewriteVars == <<url, mirror, rewritten>>
listVars == <<versions, version_type, listed>>

\* No call of replace_domain or version_list has been made.
NoCalls ==
    /\ url = <<>>
    /\ mirror = <<>>
    /\ rewritten = <<>>
    /\ versions = <<>>
    /\ version_type = "All"
    /\ listed = <<>>

\* The pipeline before its first run, with a given object store and index.
PipeInit(store, objects) ==
    /\ pc = "idle"
    /\ runs = 0
    /\ result = "none"
    /\ fs = store
    /\ served = objects
    /\ ass = NoAss
    /\ i = 0
    /\ asset_json = <<>>
    /\ pos = 0
    /\ cnt = 0
    /\ att = 0
    /\ inflight = <<>>
    /\ reqs = NoReqs
    /\ objReqs = {}
    /\ nreq = 0
    /\ resp = <<>>
    /\ fetchRes = NoFetchRes
    /\ idxBody = <<>>
    /\ written = {}
    /\ writtenRun = {}
    /\ fs0 = store
    /\ syncRes = "none"
    /\ prevSync = "none"
    /\ lastSync = "none"
    /\ out = <<>>
    /\ installed = FALSE
    /\ manifestRes = "none"

Init ==
    /\ \E store \in InitialStores, objects \in AssetJsons : PipeInit(store, objects)
    /\ NoCalls

\* install_mc returns r to handle_args, which logs an error or returns.
Return(r) ==
    /\ pc' = "idle"
    /\ result' = r

\* install_assets returns r, and with it install_assets_and_asset_index.
SyncReturn(r) ==
    /\ syncRes' = r
    /\ lastSync' = r

\* main.rs, Command::Build: install_mc(&config) up to its first HTTP call.
Build ==
    /\ pc = "idle"
    /\ runs < MaxRuns
    /\ runs' = runs + 1
    /\ pc' = "manifest"
    /\ result' = "none"
    /\ ass' = NoAss
    /\ i' = 0
    /\ asset_json' = <<>>
    /\ pos' = 0
    /\ cnt' = 0
    /\ att' = 0
    /\ inflight' = <<>>
    /\ reqs' = NoReqs
    /\ objReqs' = {}
    /\ nreq' = 0
    /\ resp' = <<>>
    /\ fetchRes' = NoFetchRes
    /\ idxBody' = <<>>
    /\ writtenRun' = {}
    /\ syncRes' = "none"
    /\ out' = <<>>
    /\ installed' = FALSE
    /\ manifestRes' = "none"
    /\ UNCHANGED <<fs, served, written, fs0, prevSync, lastSync>>
    /\ UNCHANGED <<rewriteVars, listVars>>

\* VersionManifestJson::new, then get_version_json up to its own request:
\* find(..).unwrap() panics when the version is absent, replace_domain
\* panics when the url does not match.
VersionManifestJson_new ==
    /\ pc = "manifest"
    /\ reqs' = Get(reqs, "manifest")
    /\ \E o \in {"send_err", "json_err", "absent", "badurl", "found"} :
          /\ manifestRes' = o
          /\ \/ /\ o \in {"send_err", "json_err"}
                /\ Return("Err(manifest)")
             \/ /\ o \in {"absent", "badurl"}
                /\ Return("panic")
             \/ /\ o = "found"
                /\ pc' = "descriptor"
                /\ result' = result
    /\ UNCHANGED <<runs, fs, served, ass, i, asset_json, pos, cnt, att, inflight,
                   objReqs, nreq, resp, fetchRes, idxBody, written, writtenRun,
                   fs0, syncRes, prevSync, lastSync, out, installed>>
    /\ UNCHANGED <<rewriteVars, listVars>>

\* get_version_json's request for the descriptor; install_mc writing the
\* descriptor; install_assets_and_asset_index up to its loop.
get_version_json ==
    /\ pc = "descriptor"
    /\ reqs' = Get(reqs, "descriptor")
    /\ \/ /\ \E o \in {"send_err", "text_err", "json_err"} : Return("Err(descriptor)")
          /\ UNCHANGED <<fs, written, writtenRun, ass>>
       \/ \E d \in Descriptors :
             /\ fs' = FsWrite(fs, VersionJsonFile, ToStringPretty(d))
             /\ written' = written \cup {VersionJsonFile}
             /\ writtenRun' = writtenRun \cup {VersionJsonFile}
             /\ IF ~d.present
                  THEN Return("Err(json)") /\ ass' = ass
                  ELSE IF ~d.https
                         THEN Return("panic") /\ ass' = ass
                         ELSE /\ pc' = "asset_index"
                              /\ result' = result
                              /\ ass' = [id |-> d.id, sha1 |-> d.sha1]
    /\ UNCHANGED <<runs, served, i, asset_json, pos, cnt, att, inflight, objReqs,
                   nreq, resp, fetchRes, idxBody, fs0, syncRes, prevSync,
                   lastSync, out, installed, manifestRes>>
    /\ UNCHANGED <<rewriteVars, listVars>>

\* One iteration of the loop of install_assets_and_asset_index: the request,
\* and on a verified body the write, the parse and the call of install_assets.
install_assets_and_asset_index ==
    /\ pc = "asset_index"
    /\ reqs' = Get(reqs, "index")
    /\ \/ /\ \E o \in {"send_err", "text_err"} : Return("Err(transport)")
          /\ UNCHANGED <<fs, written, writtenRun, i, asset_json, pos, cnt, fs0,
                         syncRes, prevSync, idxBody>>
       \/ \E body \in IndexBodies :
             LET data == Text(body) IN
             /\ idxBody' = body
             /\ IF sha1_cmp(data, ass.sha1) = "Equal"
                  THEN /\ fs' = FsWrite(fs, AssetIndexFile(ass.id), data)
                       /\ written' = written \cup {AssetIndexFile(ass.id)}
                       /\ writtenRun' = writtenRun \cup {AssetIndexFile(ass.id)}
                       /\ i' = i
                       /\ IF ParsesAsAssetJson(data)
                            THEN /\ asset_json' \in IterationOrders(served)
                                 /\ pos' = 1
                                 /\ cnt' = 0
                                 /\ fs0' = fs'
                                 /\ syncRes' = "running"
                                 /\ prevSync' = lastSync
                                 /\ pc' = "install_assets"
                                 /\ result' = result
                            ELSE /\ Return("Err(json)")
                                 /\ UNCHANGED <<asset_json, pos, cnt, fs0, syncRes,
                                                prevSync>>
                  ELSE /\ UNCHANGED <<fs, written, writtenRun, asset_json, pos,
                                      cnt, fs0, syncRes, prevSync>>
                       /\ IF i = IndexLastAttempt
                            THEN Return("Err(can't get assets json)") /\ i' = i
                            ELSE /\ i' = i + 1
                                 /\ UNCHANGED <<pc, result>>
    /\ UNCHANGED <<runs, served, ass, att, inflight, objReqs, nreq, resp,
                   fetchRes, lastSync, out, installed, manifestRes>>
    /\ UNCHANGED <<rewriteVars, listVars>>

\* (fault: the progress line is printed for an entry that is skipped)
install_assets_skipMut ==
    /\ pc = "install_assets"
    /\ pos <= Len(asset_json)
    /\ path_exists(fs, ObjectFile(asset_json[pos]))
    /\ cnt' = cnt + 1
    /\ out' = Append(out, [cnt |-> cnt + 1, len |-> Len(asset_json), hash |-> asset_json[pos]])
    /\ pos' = pos + 1
    /\ nreq' = 0
    /\ resp' = <<>>
    /\ fetchRes' = NoFetchRes
    /\ UNCHANGED <<pc, runs, result, fs, served, ass, i, asset_json, att, inflight,
                   reqs, objReqs, idxBody, written, writtenRun, fs0, syncRes,
                   prevSync, lastSync, installed, manifestRes>>
    /\ UNCHANGED <<rewriteVars, listVars>>
\* install_assets, an entry whose file exists: count it and continue.
install_assets_skip ==
    /\ pc = "install_assets"
    /\ pos <= Len(asset_json)
    /\ path_exists(fs, ObjectFile(asset_json[pos]))
    /\ cnt' = cnt + 1
    /\ pos' = pos + 1
    /\ nreq' = 0
    /\ resp' = <<>>
    /\ fetchRes' = NoFetchRes
    /\ UNCHANGED <<pc, runs, result, fs, served, ass, i, asset_json, att, inflight,
                   reqs, objReqs, idxBody, written, writtenRun, fs0, syncRes,
                   prevSync, lastSync, out, installed, manifestRes>>
    /\ UNCHANGED <<rewriteVars, listVars>>

\* install_assets, an entry whose file is missing: the call of
\* install_bytes_with_timeout, up to its first request.
install_assets_get ==
    /\ pc = "install_assets"
    /\ pos <= Len(asset_json)
    /\ ~path_exists(fs, ObjectFile(asset_json[pos]))
    /\ att' = 0
    /\ inflight' = asset_json[pos]
    /\ objReqs' = objReqs \cup {asset_json[pos]}
    /\ nreq' = 1
    /\ resp' = <<>>
    /\ fetchRes' = NoFetchRes
    /\ pc' = "recv"
    /\ UNCHANGED <<runs, result, fs, served, ass, i, asset_json, pos, cnt, reqs,
                   idxBody, written, writtenRun, fs0, syncRes, prevSync,
                   lastSync, out, installed, manifestRes>>
    /\ UNCHANGED <<rewriteVars, listVars>>

\* install_bytes_with_timeout returns Ok(data): install_assets writes the
\* file, prints the progress line and goes to the next entry.
FetchOk(data) ==
    LET hash == asset_json[pos] IN
    /\ fetchRes' = [res |-> "Ok", sha1 |-> hash, data |-> data]
    /\ fs' = FsWrite(fs, ObjectFile(hash), data)
    /\ written' = written \cup {ObjectFile(hash)}
    /\ writtenRun' = writtenRun \cup {ObjectFile(hash)}
    /\ cnt' = cnt + 1
    /\ out' = Append(out, [cnt |-> cnt + 1, len |-> Len(asset_json), hash |-> hash])
    /\ pos' = pos + 1
    /\ pc' = "install_assets"
    /\ inflight' = <<>>
    /\ UNCHANGED <<result, att, objReqs, nreq, syncRes, lastSync>>

\* (fault: the error is dropped and the loop goes to the next entry)
FetchErrMut(msg) ==
    /\ fetchRes' = [res |-> "Err", sha1 |-> asset_json[pos], data |-> <<>>]
    /\ pos' = pos + 1
    /\ pc' = "install_assets"
    /\ inflight' = <<>>
    /\ UNCHANGED <<result, syncRes, lastSync, fs, written, writtenRun, cnt, out,
                   att, objReqs, nreq>>
\* (fault: a failed object fetch goes on with the loop over index attempts)
FetchErrNextIndex(msg) ==
    /\ fetchRes' = [res |-> "Err", sha1 |-> asset_json[pos], data |-> <<>>]
    /\ pc' = "asset_index"
    /\ result' = result
    /\ SyncReturn("Err")
    /\ inflight' = <<>>
    /\ UNCHANGED <<fs, written, writtenRun, cnt, out, pos, att, objReqs, nreq>>
\* install_bytes_with_timeout returns Err: `?` returns it from install_assets,
\* from install_assets_and_asset_index and from install_mc.
FetchErr(msg) ==
    /\ fetchRes' = [res |-> "Err", sha1 |-> asset_json[pos], data |-> <<>>]
    /\ Return(msg)
    /\ SyncReturn("Err")
    /\ inflight' = <<>>
    /\ UNCHANGED <<fs, written, writtenRun, cnt, out, pos, att, objReqs, nreq>>

\* The loop of install_bytes_with_timeout goes to its next iteration, if it
\* has one, and sends the next request.
FetchRetry ==
    IF att + 1 < FetchAttempts
      THEN /\ att' = att + 1
           /\ nreq' = nreq + 1
           /\ UNCHANGED <<pc, result, inflight, objReqs, fetchRes, fs, written,
                          writtenRun, cnt, out, pos, syncRes, lastSync>>
      ELSE FetchErr("Err(download fail)")

\* What a request for an object may meet: no response, a response whose body
\* cannot be read, or a response with any body.
FetchOutcomes ==
    {Outcome("send_err", <<>>), Outcome("body_err", <<>>)}
    \cup {Outcome("body", b) : b \in ObjectBodies}

\* install_bytes_with_timeout, one iteration of its loop from the outcome of
\* send() on: a send error goes to the next iteration, an error of bytes()
\* is returned, a body is returned when its digest is the expected one.
install_bytes_with_timeout ==
    /\ pc = "recv"
    /\ \E o \in FetchOutcomes :
          /\ resp' = Append(resp, o)
          /\ IF o.kind = "send_err"
               THEN FetchRetry
               ELSE IF o.kind = "body_err"
                      THEN FetchErr("Err(transport)")
                      ELSE IF sha1_cmp(o.body, asset_json[pos]) = "Equal"
                             THEN FetchOk(o.body)
                             ELSE FetchRetry
    /\ UNCHANGED <<runs, served, ass, i, asset_json, reqs, idxBody, fs0,
                   prevSync, installed, manifestRes>>
    /\ UNCHANGED <<rewriteVars, listVars>>

\* install_assets has no entry left and returns Ok(()); the loop of
\* install_assets_and_asset_index breaks, "assets installed" is printed and
\* install_mc returns Ok(()).
install_assets_return ==
    /\ pc = "install_assets"
    /\ pos > Len(asset_json)
    /\ SyncReturn("Ok")
    /\ installed' = TRUE
    /\ Return("Ok")
    /\ nreq' = 0
    /\ resp' = <<>>
    /\ fetchRes' = NoFetchRes
    /\ UNCHANGED <<runs, fs, served, ass, i, asset_json, pos, cnt, att, inflight,
                   reqs, objReqs, idxBody, written, writtenRun, fs0, prevSync,
                   out, manifestRes>>
    /\ UNCHANGED <<rewriteVars, listVars>>

Next ==
    \/ Build
    \/ VersionManifestJson_new
    \/ get_version_json
    \/ install_assets_and_asset_index
    \/ install_assets_skip
    \/ install_assets_get
    \/ install_bytes_with_timeout
    \/ install_assets_return

Spec == Init /\ [][Next]_vars

\* ------------------------------------- replace_domain, checked on its own
\* An empty object store and an empty index: the pipeline does not run here.
NoFiles == [p \in {} |-> <<>>]

InitRewrite ==
    /\ PipeInit(NoFiles, ObjectsOf(<<>>))
    /\ url \in Urls
    /\ mirror \in Mirrors
    /\ rewritten = <<>>
    /\ versions = <<>>
    /\ version_type = "All"
    /\ listed = <<>>

\* url.replace_domain(&mirror)
CallReplaceDomain ==
    /\ rewritten = <<>>
    /\ rewritten' = <<replace_domain(url, mirror)>>
    /\ UNCHANGED <<url, mirror, pipeVars, listVars>>

\* The result, given to replace_domain again with the same mirror.
CallReplaceDomainAgain ==
    /\ Len(rewritten) = 1
    /\ rewritten[1].ok
    /\ rewritten' = Append(rewritten, replace_domain(rewritten[1].str, mirror))
    /\ UNCHANGED <<url, mirror, pipeVars, listVars>>

NextRewrite ==
    \/ CallReplaceDomain
    \/ CallReplaceDomainAgain

SpecRewrite == InitRewrite /\ [][NextRewrite]_vars

\* --------------------------------------- version_list, checked on its own
InitList ==
    /\ PipeInit(NoFiles, ObjectsOf(<<>>))
    /\ url = <<>>
    /\ mirror = <<>>
    /\ rewritten = <<>>
    /\ versions \in VersionLists
    /\ version_type \in VersionTypes
    /\ listed = <<>>

\* main.rs, Command::List: manifest.version_list(_type)
CallVersionList ==
    /\ listed = <<>>
    /\ listed' = <<version_list(versions, version_type)>>
    /\ UNCHANGED <<versions, version_type, pipeVars, rewriteVars>>

NextList == CallVersionList

SpecList == InitList /\ [][NextList]_vars

\* ----------------------------------------------------------------- claims
\* The k-th response of the current install_bytes_with_timeout call carries
\* a body whose digest is the expected hash.
Matches(k) ==
    /\ resp[k].kind = "body"
    /\ Sha1Hex(resp[k].body) = fetchRes.sha1

\* The hashes of the entries of the parsed index.
EntryHashes == {asset_json[k] : k \in 1..Len(asset_json)}

\* The hashes of the object files written in this run.
WrittenRunHashes == {h \in Hashes : ObjectFile(h) \in writtenRun}

\* C1: every object file the pipeline has written, in any run and whatever
\* the server answered, holds bytes whose SHA-1 hex digest is the file's name;
\* an object whose fetch failed has no file at its path.
C1_SelfCertifying ==
    /\ \A h \in Hashes :
          ObjectFile(h) \in written =>
             /\ path_exists(fs, ObjectFile(h))
             /\ Sha1Hex(fs[ObjectFile(h)]) = h
    /\ fetchRes.res = "Err" => ~path_exists(fs, ObjectFile(fetchRes.sha1))

\* C1 witness: a file was written in an earlier run and, in this run, a
\* fetch has used up its attempts.
C1_Witness ==
    /\ runs = 2
    /\ \E h \in Hashes : ObjectFile(h) \in written \ writtenRun
    /\ fetchRes.res = "Err"
    /\ nreq = 3

\* C2: install_bytes_with_timeout returns Ok exactly when one of its (at most
\* 3) attempts brought a body with the expected digest; it returns that body
\* and sends nothing after the first match; when every response is a
\* corrupted body it returns Err after exactly 3 requests.
C2_FetchVerified ==
    fetchRes.res # "none" =>
       /\ nreq = Len(resp)
       /\ nreq <= 3
       /\ fetchRes.res = "Ok" <=> \E k \in 1..Len(resp) : Matches(k)
       /\ fetchRes.res = "Ok" =>
             /\ Matches(Len(resp))
             /\ fetchRes.data = resp[Len(resp)].body
             /\ \A k \in 1..(Len(resp) - 1) : ~Matches(k)
       /\ (\A k \in 1..Len(resp) : resp[k].kind = "body" /\ ~Matches(k)) =>
             /\ fetchRes.res = "Err"
             /\ nreq = 3

\* C2 witness: corrupted bytes on attempts 1 and 2, the right bytes on 3.
C2_Witness ==
    /\ fetchRes.res = "Ok"
    /\ Len(resp) = 3
    /\ resp[1].kind = "body"
    /\ resp[2].kind = "body"

\* C3: in install_bytes_with_timeout a transport failure of one attempt, at
\* send or while the body is read, uses up that attempt and the next one is
\* made: Err is returned only after all 3 attempts.
C3_TransportRetried ==
    fetchRes.res = "Err" => nreq = 3

\* C4: when every asset index response fails the sha1 check, exactly 3
\* requests for the index are sent before the explicit error is returned; the
\* index file is not written and no object is requested.
C4_IndexBudget ==
    result = "Err(can't get assets json)" =>
       /\ reqs.index = 3
       /\ AssetIndexFile(ass.id) \notin writtenRun
       /\ objReqs = {}

\* C5: in the asset index loop a transport failure uses up one attempt and is
\* retried like a digest mismatch: a transport error reaches the caller only
\* when the attempts are used up.
C5_IndexTransportRetried ==
    (result = "Err(transport)" /\ syncRes = "none") => reqs.index >= 3

\* C6: the asset index file written in this run is byte-identical to a
\* response body whose SHA-1 is the descriptor's assetIndex.sha1.
C6_VerifyThenPersist ==
    AssetIndexFile(ass.id) \in writtenRun =>
       /\ fs[AssetIndexFile(ass.id)] = idxBody
       /\ Sha1Hex(idxBody) = ass.sha1

\* C7: while a request for an object is in flight no file exists at that
\* object's path, whatever its contents would be; the objects requested in a
\* run are among those that were missing when install_assets began.
C7_NoRefetch ==
    /\ pc = "recv" => ~path_exists(fs, ObjectFile(inflight))
    /\ objReqs \cap ObjectFiles(fs0) = {}

\* C7 witness: the run after an aborted one requests an object after it has
\* skipped one that the store already held.
C7_Witness ==
    /\ runs = 2
    /\ lastSync = "Err"
    /\ pc = "recv"
    /\ cnt > 0
    /\ asset_json[1] \in ObjectFiles(fs0)

\* C8 as stated: from an empty object store, a successful install_assets
\* leaves exactly as many files as the index has entries.
C8_KFiles ==
    (syncRes = "Ok" /\ ObjectFiles(fs0) = {}) =>
       Cardinality(ObjectFiles(fs)) = Len(asset_json)

\* C8 amended: from an empty object store, a successful install_assets leaves
\* exactly one file per distinct hash of the index, so K files when the K
\* entries have pairwise distinct hashes.
C8_KDistinctHashes ==
    (syncRes = "Ok" /\ ObjectFiles(fs0) = {}) =>
       /\ ObjectFiles(fs) = EntryHashes
       /\ WrittenRunHashes = EntryHashes
       /\ (Cardinality(EntryHashes) = Len(asset_json) =>
              Cardinality(ObjectFiles(fs)) = Len(asset_json))

\* C8 witness: a successful run over two entries with different hashes that
\* began with an empty store.
C8_Witness ==
    /\ syncRes = "Ok"
    /\ ObjectFiles(fs0) = {}
    /\ Len(asset_json) = 2
    /\ asset_json[1] # asset_json[2]

\* C9: an install_assets call that follows a successful one over the same
\* index sends no object request, does not fail and leaves the object store
\* as it found it.
C9_Idempotent ==
    (prevSync = "Ok" /\ syncRes # "none") =>
       /\ objReqs = {}
       /\ pc # "recv"
       /\ syncRes # "Err"
       /\ ObjectStore(fs) = ObjectStore(fs0)
       /\ out = <<>>

\* C9 witness: the second of two successful calls has returned.
C9_Witness ==
    /\ prevSync = "Ok"
    /\ syncRes = "Ok"
    /\ Len(asset_json) = 2
    /\ WrittenRunHashes = {}

\* C10: when a fetch fails, install_assets returns the error at once: the run
\* is over with an error, nothing was requested or written for a later
\* entry, and the files written earlier in the run are still there.
C10_AbortOnFirstFailure ==
    fetchRes.res = "Err" =>
       /\ pc = "idle"
       /\ syncRes = "Err"
       /\ result \in {"Err(download fail)", "Err(transport)"}
       /\ ~installed
       /\ fetchRes.sha1 = asset_json[pos]
       /\ objReqs \subseteq {asset_json[k] : k \in 1..pos}
       /\ WrittenRunHashes \subseteq {asset_json[k] : k \in 1..(pos - 1)}
       /\ ObjectFiles(fs) = ObjectFiles(fs0) \cup WrittenRunHashes
       /\ \A h \in WrittenRunHashes : Sha1Hex(fs[ObjectFile(h)]) = h

\* C10 witness: the first entry's fetch used up its 3 attempts while a later
\* entry is still missing from the store.
C10_Witness ==
    /\ fetchRes.res = "Err"
    /\ nreq = 3
    /\ pos < Len(asset_json)
    /\ asset_json[pos + 1] \notin ObjectFiles(fs)
    /\ asset_json[pos + 1] # asset_json[pos]

\* C11: the object store is append-only: in every step, every file under
\* assets/objects, whoever wrote it, is still there afterwards with the same
\* contents; all a step does to the store is create files at absent paths.
C11_AppendOnly ==
    [][\A h \in ObjectFiles(fs) :
          /\ h \in ObjectFiles(fs')
          /\ fs'[ObjectFile(h)] = fs[ObjectFile(h)]]_vars

\* C11 witness: in a second run the pipeline has written an object while a
\* file that was there before the first run still holds its old bytes.
C11_Witness ==
    /\ runs = 2
    /\ WrittenRunHashes # {}
    /\ \E h \in ObjectFiles(fs) :
          /\ ObjectFile(h) \notin written
          /\ fs[ObjectFile(h)] = <<"junk">>

\* C12: when the manifest has no entry for config.game_version, the run ends
\* with an error returned to the caller, no descriptor was requested and no
\* file was written.
C12_VersionNotFound ==
    manifestRes = "absent" =>
       /\ result \notin {"none", "Ok", "panic"}
       /\ reqs.descriptor = 0
       /\ writtenRun = {}

\* An absolute https url: the scheme, a host of one or more characters that
\* are neither a slash nor white space, and a slash.
HostEnd(str) ==
    LET first == Len(Https) + 1
        slashes == {e \in first..Len(str) : str[e] = "/"}
    IN IF ~StartsWith(str, 1, Https) \/ slashes = {} THEN 0
       ELSE LET e == CHOOSE e1 \in slashes : \A e2 \in slashes : e1 <= e2
            IN IF e > first /\ \A k \in first..(e - 1) : str[k] # " "
                 THEN e ELSE 0

\* C13: for an absolute url, replace_domain returns the mirror followed by
\* the url's text after its scheme, host and slash, unchanged, also when that
\* text holds the same prefix again; and rewriting the result again with the
\* same mirror returns the result.
C13_PrefixOnly ==
    (HostEnd(url) > 0 /\ Len(rewritten) >= 1) =>
       /\ rewritten[1].ok
       /\ rewritten[1].str = mirror \o SubSeq(url, HostEnd(url) + 1, Len(url))
       /\ Len(rewritten) = 2 => rewritten[2] = rewritten[1]

\* The version type asks for this entry.
Wanted(e) ==
    \/ version_type = "All"
    \/ version_type = "Release" /\ e.type = "release"
    \/ version_type = "Snapshot" /\ e.type = "snapshot"

\* C14: version_list returns the ids of exactly the entries the version type
\* asks for, in manifest order: the n-th wanted entry's id is the n-th
\* element; All asks for every entry, whatever its type.
C14_VersionList ==
    listed # <<>> =>
       LET wanted == {k \in 1..Len(versions) : Wanted(versions[k])}
       IN /\ Len(listed[1]) = Cardinality(wanted)
          /\ \A k \in wanted :
                listed[1][Cardinality({j \in wanted : j <= k})] = versions[k].id
          /\ version_type = "All" => Len(listed[1]) = Len(versions)

\* C14 witness: Release over a manifest that has a release, then an entry of
\* another type, then a release with another id.
C14_Witness ==
    /\ listed # <<>>
    /\ version_type = "Release"
    /\ Len(versions) = 3
    /\ versions[1].type = "release"
    /\ versions[2].type = "old_beta"
    /\ versions[3].type = "release"
    /\ versions[1].id # versions[3].id
    /\ listed[1] = <<versions[1].id, versions[3].id>>

\* C15: within a run the descriptor is on disk, written by this run, before
\* the first asset index request; the verified index is on disk, written by
\* this run, before the first object request; and objects are requested only
\* in a run in which an index response passed verification.
C15_PipelineOrder ==
    /\ (pc = "asset_index" \/ reqs.index > 0) =>
          /\ VersionJsonFile \in writtenRun
          /\ path_exists(fs, VersionJsonFile)
    /\ (pc = "install_assets" \/ objReqs # {}) =>
          /\ AssetIndexFile(ass.id) \in writtenRun
          /\ path_exists(fs, AssetIndexFile(ass.id))
          /\ fs[AssetIndexFile(ass.id)] = Text(idxBody)
          /\ Sha1Hex(Text(idxBody)) = ass.sha1
          /\ reqs.index > 0

\* C15 witness: an object is requested after an index response that failed
\* verification and one that passed it.
C15_Witness ==
    /\ pc = "recv"
    /\ objReqs # {}
    /\ reqs.index = 2
    /\ i = 1

\* C16: while a request for an object is in flight it is the request for
\* the entry the iteration stands at, every entry before it has a file at
\* its path, and there is no request in flight at any other time.
C16_OneAtATime ==
    /\ pc = "recv" =>
          /\ pos \in 1..Len(asset_json)
          /\ inflight = asset_json[pos]
          /\ \A k \in 1..(pos - 1) : path_exists(fs, ObjectFile(asset_json[k]))
    /\ pc # "recv" => inflight = <<>>

\* C16 witness: the second entry is requested after the first, of another
\* hash, was fetched and written in this run.
C16_Witness ==
    /\ pc = "recv"
    /\ pos = 2
    /\ asset_json[1] # asset_json[2]
    /\ ObjectFile(asset_json[1]) \in writtenRun

\* The results install_mc can return: Ok(()) or an error.
Returned ==
    {"Ok", "Err(manifest)", "Err(descriptor)", "Err(json)", "Err(transport)",
     "Err(can't get assets json)", "Err(download fail)"}

\* C17: a run that has ended has returned success or an error, and a run
\* issues at most FetchAttempts requests for each object, one manifest
\* request, one descriptor request and a bounded number of index requests.
C17_Terminates ==
    /\ (pc = "idle" /\ runs > 0) => result \in Returned
    /\ nreq <= FetchAttempts
    /\ reqs.manifest <= 1
    /\ reqs.descriptor <= 1
    /\ reqs.index <= IndexLastAttempt + 1

\* C18: every progress line names a hash whose file this run has written;
\* its total is the number of entries of the index; its count is the
\* position of the entry in the iteration, so the counts are strictly
\* increasing and between 1 and the total; and there is no line for an entry
\* that was skipped: none for a hash present when the iteration began, and
\* no second line for a hash.
C18_ProgressLines ==
    \A k \in 1..Len(out) :
       /\ ObjectFile(out[k].hash) \in writtenRun
       /\ path_exists(fs, ObjectFile(out[k].hash))
       /\ out[k].len = Len(asset_json)
       /\ 1 <= out[k].cnt /\ out[k].cnt <= out[k].len
       /\ out[k].cnt < pos
       /\ asset_json[out[k].cnt] = out[k].hash
       /\ \A j \in 1..(k - 1) : /\ out[j].cnt < out[k].cnt
                                /\ out[j].hash # out[k].hash
       /\ ~path_exists(fs0, ObjectFile(out[k].hash))

\* C18 witness: the first entry was skipped and the second fetched, so the
\* only line printed says 2/2.
C18_Witness ==
    /\ Len(out) = 1
    /\ out[1].cnt = 2
    /\ out[1].len = 2
    /\ path_exists(fs0, ObjectFile(asset_json[1]))

\* C19: a hash that several entries of the index share, and that was absent
\* when the iteration began, is fetched with success at most once in the
\* run: the files the run creates are files of distinct hashes that were
\* missing, one progress line each, and after a successful iteration they
\* are exactly the distinct missing hashes of the index, however many
\* entries name them.
C19_DuplicatesOnce ==
    LET missing == EntryHashes \ ObjectFiles(fs0)
    IN /\ \A j, k \in 1..Len(out) : out[j].hash = out[k].hash => j = k
       /\ syncRes \in {"running", "Ok", "Err"} =>
             /\ WrittenRunHashes \subseteq missing
             /\ Len(out) = Cardinality(WrittenRunHashes)
       /\ syncRes = "Ok" =>
             /\ WrittenRunHashes = missing
             /\ Len(out) = Cardinality(missing)

\* C19 witness: two entries share a hash that was absent; the iteration
\* succeeded and created one file.
C19_Witness ==
    /\ syncRes = "Ok"
    /\ Len(asset_json) = 2
    /\ asset_json[1] = asset_json[2]
    /\ ~path_exists(fs0, ObjectFile(asset_json[1]))
    /\ Len(out) = 1
    /\ WrittenRunHashes = {asset_json[1]}

\* C20: once an index response has passed verification and the index file is
\* written, the run issues no further index request (the requests are the
\* failed verifications and this one, and the loop is left); the file stays
\* on disk with the verified body whether the parse and the iteration over
\* the objects succeed or fail; and "assets installed" is printed only when
\* install_assets returned Ok.
C20_NoSecondIndex ==
    /\ AssetIndexFile(ass.id) \in writtenRun =>
          /\ pc # "asset_index"
          /\ reqs.index = i + 1
          /\ Sha1Hex(Text(idxBody)) = ass.sha1
          /\ path_exists(fs, AssetIndexFile(ass.id))
          /\ fs[AssetIndexFile(ass.id)] = Text(idxBody)
          /\ pc = "idle" /\ syncRes # "Ok" => result \in {"Err(json)", "Err(transport)", "Err(download fail)"}
    /\ installed => syncRes = "Ok" /\ result = "Ok"

\* C20 witness: the second index response passed verification, a fetch of an
\* object then failed and the run ended.
C20_Witness ==
    /\ pc = "idle"
    /\ AssetIndexFile(ass.id) \in writtenRun
    /\ syncRes = "Err"
    /\ reqs.index = 2
    /\ ~installed
====
